---- MODULE Spec2Model ----
(***************************************************************************)
(* TripodTree (src/src/tripod_tree.rs): an indexed, balanced binary tree   *)
(* that keeps its elements in insertion order.                             *)
(*                                                                         *)
(* The heap is a function from node addresses to Node records.  A child    *)
(* slot of a node holds the node's own address when there is no child on   *)
(* that side (the quarter pointer "pointing to self"), the child's address *)
(* otherwise, and NoNode only while the node is being released.  The       *)
(* tripod slot holds the node's own address while the spare quarter is     *)
(* parked.                                                                 *)
(*                                                                         *)
(* Every operation of the tree delegates to a cursor.  The cursor's        *)
(* operations are written here from sections 4.2 to 4.4 of the design      *)
(* (navigation by left-subtree size, weight-balanced rotations, join), so  *)
(* that the trees they build are the ones the tests of tripod_tree.rs      *)
(* expect.                                                                 *)
(***************************************************************************)
EXTENDS Integers, Sequences, FiniteSets, TLC

\* Bounds of the model.
MaxNodes == 5

Nodes == 1..MaxNodes
NoNode == 0
Values == {1, 2}
NoValue == 0
Trees == {1, 2}

Side == {"Left", "Right"}

\* A faulty opposite: it answers the side it is given.
BadOpposite(side) == side

opposite(side) == IF side = "Left" THEN "Right" ELSE "Left"

\* An address nothing was allocated at.
FreeNode == [size |-> 0, value |-> NoValue, up |-> NoNode, left |-> NoNode,
             right |-> NoNode, tripod |-> NoNode]

VARIABLES
    heap,   \* address -> Node
    root,   \* tree -> address of the root node, NoNode for an empty tree
    last    \* the last public operation: its name, receiver, arguments, result
            \* and the element sequences of both trees before it

vars == <<heap, root, last>>

----------------------------------------------------------------------------
\* Node

is_aliased(n, ptr) == ptr # NoNode /\ ptr = n

child_ref(h, n, side) == IF side = "Left" THEN h[n].left ELSE h[n].right

child(h, n, side) ==
    LET result == child_ref(h, n, side)
    IN  IF is_aliased(n, result) THEN NoNode ELSE result

left(h, n) == child(h, n, "Left")

right(h, n) == child(h, n, "Right")

child_size(h, n, side) ==
    IF child(h, n, side) = NoNode THEN 0 ELSE h[child(h, n, side)].size

left_size(h, n) == child_size(h, n, "Left")

right_size(h, n) == child_size(h, n, "Right")

index(h, n) == left_size(h, n)

\* A faulty is_child_of: a child on either side is reported on the left.
BadIsChildOf(h, n, candidate) ==
    IF is_aliased(n, left(h, candidate)) \/ is_aliased(n, right(h, candidate))
    THEN "Left" ELSE "None"

\* A faulty is_child_of: only the left slot of the candidate is looked at.
BadIsChildOfLeftOnly(h, n, candidate) ==
    IF is_aliased(n, left(h, candidate)) THEN "Left" ELSE "None"

is_child_of(h, n, candidate) ==
    IF is_aliased(n, left(h, candidate)) THEN "Left"
    ELSE IF is_aliased(n, right(h, candidate)) THEN "Right"
    ELSE "None"

replace_child(h, n, side, new) ==
    IF side = "Left" THEN [h EXCEPT ![n].left = new]
    ELSE [h EXCEPT ![n].right = new]

len(h, r) == IF r = NoNode THEN 0 ELSE h[r].size

is_empty(r) == r = NoNode

\* A faulty from_value: the new node counts no element.
BadFromValue(h, n, value) ==
    [h EXCEPT ![n] = [size |-> 0, value |-> value, up |-> NoNode, left |-> n,
                      right |-> n, tripod |-> n]]

\* A faulty from_value: the spare is not retracted into the new node.
BadFromValueSpare(h, n, value) ==
    [h EXCEPT ![n] = [size |-> 1, value |-> value, up |-> NoNode, left |-> n,
                      right |-> n, tripod |-> NoNode]]

from_value(h, n, value) ==
    [h EXCEPT ![n] = [size |-> 1, value |-> value, up |-> NoNode, left |-> n,
                      right |-> n, tripod |-> n]]

----------------------------------------------------------------------------
\* Links and sizes

\* Hangs the subtree rooted at c on a side of p; without a subtree the slot
\* points back to p itself.
attach_child(h, p, side, c) ==
    IF c = NoNode THEN replace_child(h, p, side, p)
    ELSE [replace_child(h, p, side, c) EXCEPT ![c].up = p]

\* Cuts the subtree on a side of p loose; the slot points back to p itself.
detach_child(h, p, side) ==
    IF child(h, p, side) = NoNode THEN h
    ELSE [replace_child(h, p, side, p) EXCEPT ![child(h, p, side)].up = NoNode]

update_size(h, n) ==
    [h EXCEPT ![n].size = 1 + left_size(h, n) + right_size(h, n)]

RECURSIVE adjust_size(_, _)
adjust_size(h, n) ==
    IF n = NoNode THEN h
    ELSE adjust_size(update_size(h, n), h[n].up)

RECURSIVE root_of(_, _)
root_of(h, n) ==
    IF n = NoNode \/ h[n].up = NoNode THEN n ELSE root_of(h, h[n].up)

RECURSIVE extreme(_, _, _)
extreme(h, n, side) ==
    IF n = NoNode \/ child(h, n, side) = NoNode THEN n
    ELSE extreme(h, child(h, n, side), side)

----------------------------------------------------------------------------
\* Balance (design 4.2)

balanced(a, b) == a <= 2 * b + 1 /\ b <= 2 * a + 1

\* Puts the subtree rooted at c in the place a node had on side ps of p, or
\* at the root when there is no p.
graft(h, p, ps, c) ==
    IF p = NoNode THEN [h EXCEPT ![c].up = NoNode]
    ELSE replace_child([h EXCEPT ![c].up = p], p, ps, c)

\* Rotates the subtree rooted at n towards side: the child on the opposite
\* side takes the place of n, and n becomes its child on side.
rotate(h, n, side) ==
    LET o == opposite(side)
        c == child(h, n, o)
        g == child(h, c, side)
        p == h[n].up
        ps == IF p = NoNode THEN "None" ELSE is_child_of(h, n, p)
        h1 == attach_child(h, n, o, g)
        h2 == attach_child(h1, c, side, n)
    IN  update_size(update_size(graft(h2, p, ps, c), n), c)

\* One local step at n, made when the children of n are out of balance: a
\* double rotation when the inner grandchild on the heavy side outweighs the
\* outer one, a single rotation otherwise.
rebalance_node(h, n) ==
    LET l == left_size(h, n)
        r == right_size(h, n)
        heavy == IF l > r THEN "Left" ELSE "Right"
        light == opposite(heavy)
        c == child(h, n, heavy)
        inner == child_size(h, c, light)
        outer == child_size(h, c, heavy)
    IN  IF balanced(l, r) THEN h
        ELSE rotate(IF inner > outer THEN rotate(h, c, heavy) ELSE h, n, light)

\* The local step at n and then at every node that was an ancestor of n, up
\* to the root: one step for each node of the path.
RECURSIVE rebalance_tree(_, _)
rebalance_tree(h, n) ==
    IF n = NoNode THEN h
    ELSE rebalance_tree(rebalance_node(h, n), h[n].up)

\* Hangs the tree k was joined into back on a side of tall, and makes the
\* local step at tall.
rejoin(h, tall, side, k) ==
    rebalance_node(update_size(attach_child(h, tall, side, root_of(h, k)), tall), tall)

\* Join (design 4.4): the node k between the trees rooted at l and r.
RECURSIVE join(_, _, _, _)
join(h, l, k, r) ==
    IF balanced(len(h, l), len(h, r)) THEN
        update_size(attach_child(attach_child(h, k, "Left", l), k, "Right", r), k)
    ELSE
        LET tall == IF len(h, l) > len(h, r) THEN l ELSE r
            side == IF tall = l THEN "Right" ELSE "Left"
            inner == child(h, tall, side)
        IN  rejoin(join(detach_child(h, tall, side),
                        IF tall = l THEN inner ELSE l, k,
                        IF tall = l THEN r ELSE inner),
                   tall, side, k)

----------------------------------------------------------------------------
\* Cursor (design 4.3).  A cursor is the address of the node it is on, NoNode
\* when it is on no node.

move_to_front(h, r) == extreme(h, r, "Left")

move_to_back(h, r) == extreme(h, r, "Right")

RECURSIVE move_to(_, _, _)
move_to(h, n, at) ==
    IF n = NoNode THEN NoNode
    ELSE IF at < index(h, n) THEN move_to(h, left(h, n), at)
    ELSE IF at = index(h, n) THEN n
    ELSE move_to(h, right(h, n), at - index(h, n) - 1)

current(h, cursor) == IF cursor = NoNode THEN NoValue ELSE h[cursor].value

\* The new node goes on the given side of the cursor's node when that side is
\* free, and below the nearest node of that side otherwise.
insert_at(h, cursor, side, new, value) ==
    LET h1 == from_value(h, new, value)
        at == IF child(h, cursor, side) = NoNode THEN cursor
              ELSE extreme(h, child(h, cursor, side), opposite(side))
        to == IF at = cursor THEN side ELSE opposite(side)
    IN  IF cursor = NoNode THEN h1
        ELSE rebalance_tree(adjust_size(attach_child(h1, at, to, new), at), at)

insert_before(h, cursor, new, value) == insert_at(h, cursor, "Left", new, value)

insert_after(h, cursor, new, value) == insert_at(h, cursor, "Right", new, value)

node_into_inner(h, n) == [h EXCEPT ![n] = FreeNode]

removed(h, n, value) == [h |-> h, root |-> root_of(h, n), value |-> value]

\* Removes the cursor's node, which is the front or the back node of its tree
\* and so has at most one child; the child takes its place.  The result is
\* the heap and the root of what remains.
remove_current(h, r, cursor) ==
    LET p == h[cursor].up
        ps == IF p = NoNode THEN "None" ELSE is_child_of(h, cursor, p)
        side == IF left(h, cursor) # NoNode THEN "Left" ELSE "Right"
        c == child(h, cursor, side)
        h1 == detach_child(h, cursor, side)
        h2 == IF p = NoNode THEN h1
              ELSE attach_child([h1 EXCEPT ![cursor].up = NoNode], p, ps, c)
    IN  IF cursor = NoNode THEN [h |-> h, root |-> r, value |-> NoValue]
        ELSE removed(rebalance_tree(adjust_size(node_into_inner(h2, cursor), p), p),
                     IF p = NoNode THEN c ELSE p, h[cursor].value)

\* Walks from node n, which was cut loose from its parent p on side ps, to the
\* root: an ancestor reached from its left child heads the part after the
\* cut, one reached from its right child the part before it.
RECURSIVE split_walk(_, _, _, _, _)
RECURSIVE split_next(_, _, _, _, _, _, _)
split_walk(h, p, ps, before, after) ==
    IF p = NoNode THEN [h |-> h, before |-> before, after |-> after]
    ELSE
        LET pp == h[p].up
            pps == IF pp = NoNode THEN "None" ELSE is_child_of(h, p, pp)
            h1 == IF pp = NoNode THEN h ELSE detach_child(h, pp, pps)
            off == child(h, p, opposite(ps))
        IN  split_next(join(detach_child(h1, p, opposite(ps)),
                            IF ps = "Left" THEN after ELSE off, p,
                            IF ps = "Left" THEN off ELSE before),
                       p, ps, pp, pps, before, after)

\* The walk goes on from p, now the root of the part it heads.
split_next(h, p, ps, pp, pps, before, after) ==
    split_walk(h, pp, pps, IF ps = "Left" THEN before ELSE root_of(h, p),
               IF ps = "Left" THEN root_of(h, p) ELSE after)

\* Cuts the tree rooted at r before the cursor's node; a cursor on no node
\* is past the back, and everything is before it.
split_before(h, r, cursor) ==
    LET p == h[cursor].up
        ps == IF p = NoNode THEN "None" ELSE is_child_of(h, cursor, p)
        h1 == IF p = NoNode THEN h ELSE detach_child(h, p, ps)
        l == left(h, cursor)
        rr == right(h, cursor)
        h3 == detach_child(detach_child(h1, cursor, "Left"), cursor, "Right")
    IN  IF cursor = NoNode THEN [h |-> h, before |-> r, after |-> NoNode]
        ELSE split_next(join(h3, NoNode, cursor, rr), cursor, "Left", p, ps, l, NoNode)

spliced(h, n) == [h |-> h, root |-> root_of(h, n)]

\* Hangs the tree rooted at o next to the cursor's node, on the given side.
\* The result is the heap and the root of the whole.
splice_at(h, r, cursor, side, o) ==
    LET at == IF child(h, cursor, side) = NoNode THEN cursor
              ELSE extreme(h, child(h, cursor, side), opposite(side))
        to == IF at = cursor THEN side ELSE opposite(side)
    IN  IF o = NoNode THEN [h |-> h, root |-> r]
        ELSE IF cursor = NoNode THEN [h |-> h, root |-> o]
        ELSE spliced(rebalance_tree(adjust_size(attach_child(h, at, to, o), at), at), at)

splice_before(h, r, cursor, o) == splice_at(h, r, cursor, "Left", o)

splice_after(h, r, cursor, o) == splice_at(h, r, cursor, "Right", o)

----------------------------------------------------------------------------
\* Iterator (design 4.5): the values of the tree rooted at n, front to back.

RECURSIVE iter(_, _)
iter(h, n) ==
    IF n = NoNode THEN <<>>
    ELSE iter(h, left(h, n)) \o <<h[n].value>> \o iter(h, right(h, n))

\* next() in the words of the design: with a right child, go to that child's
\* leftmost descendant; otherwise climb the ancestors of the node until one
\* that is a left child of its own parent, and stop on it; the sequence ends
\* when the root is reached without one.
RECURSIVE climb_as_specified(_, _)
climb_as_specified(h, a) ==
    IF a = NoNode THEN NoNode
    ELSE IF h[a].up # NoNode /\ is_child_of(h, a, h[a].up) = "Left" THEN a
    ELSE climb_as_specified(h, h[a].up)

next_as_specified(h, n) ==
    IF right(h, n) # NoNode THEN extreme(h, right(h, n), "Left")
    ELSE climb_as_specified(h, h[n].up)

\* The in-order successor: with a right child, that child's leftmost
\* descendant; otherwise climb, from the node itself, until the node left
\* behind is a left child, and stop on its parent; the sequence ends when the
\* root is left behind.
RECURSIVE climb(_, _)
climb(h, c) ==
    IF h[c].up = NoNode THEN NoNode
    ELSE IF is_child_of(h, c, h[c].up) = "Left" THEN h[c].up
    ELSE climb(h, h[c].up)

successor(h, n) ==
    IF right(h, n) # NoNode THEN extreme(h, right(h, n), "Left")
    ELSE climb(h, n)

\* The nodes an iterator that starts on n yields, at most fuel of them.
RECURSIVE yielded(_, _, _)
yielded(h, n, fuel) ==
    IF n = NoNode \/ fuel = 0 THEN <<>>
    ELSE <<n>> \o yielded(h, successor(h, n), fuel - 1)

RECURSIVE yielded_as_specified(_, _, _)
yielded_as_specified(h, n, fuel) ==
    IF n = NoNode \/ fuel = 0 THEN <<>>
    ELSE <<n>> \o yielded_as_specified(h, next_as_specified(h, n), fuel - 1)

----------------------------------------------------------------------------
\* TripodTree.  An operation yields the heap, the root of the receiver, the
\* root of the other tree it is given or returns, the value it returns and
\* whether it panicked.

Outcome(h, r, o, value, panic) ==
    [h |-> h, root |-> r, other |-> o, value |-> value, panic |-> panic]

singleton(h, new, value) ==
    Outcome(from_value(h, new, value), new, NoNode, NoValue, FALSE)

front(h, r) == current(h, move_to_front(h, r))

back(h, r) == current(h, move_to_back(h, r))

\* A faulty at: the index is taken to start at one.
BadAt(h, r, i) ==
    IF i >= len(h, r) THEN NoValue ELSE current(h, move_to(h, r, i + 1))

at(h, r, i) ==
    IF i >= len(h, r) THEN NoValue ELSE current(h, move_to(h, r, i))

RECURSIVE at_mut_loop(_, _, _)
at_mut_loop(h, cursor, i) ==
    IF i < index(h, cursor) THEN at_mut_loop(h, left(h, cursor), i)
    ELSE IF i = index(h, cursor) THEN cursor
    ELSE at_mut_loop(h, right(h, cursor), i - index(h, cursor) - 1)

at_mut(h, r, i) ==
    IF i >= len(h, r) THEN NoValue
    ELSE IF r = NoNode THEN NoValue
    ELSE h[at_mut_loop(h, r, i)].value

\* What a cursor leaves when it is dropped: the tree is the one its node is
\* in, the other tree is untouched.
inserted(h, new, o) == Outcome(h, root_of(h, new), o, NoValue, FALSE)

taken(res, o) == Outcome(res.h, res.root, o, res.value, FALSE)

\* The other tree was moved from, and is empty.
moved(res) == Outcome(res.h, res.root, NoNode, NoValue, FALSE)

\* A faulty push_front: the value goes after the front element.
BadPushFront(h, r, o, new, value) ==
    inserted(insert_after(h, move_to_front(h, r), new, value), new, o)

push_front(h, r, o, new, value) ==
    inserted(insert_before(h, move_to_front(h, r), new, value), new, o)

pop_front(h, r, o) == taken(remove_current(h, r, move_to_front(h, r)), o)

push_back(h, r, o, new, value) ==
    inserted(insert_after(h, move_to_back(h, r), new, value), new, o)

pop_back(h, r, o) == taken(remove_current(h, r, move_to_back(h, r)), o)

\* A faulty append: other is spliced in at the front.
BadAppend(h, r, o) == moved(splice_before(h, r, move_to_front(h, r), o))

append(h, r, o) == moved(splice_after(h, r, move_to_back(h, r), o))

\* A faulty prepend: other is spliced in at the back.
BadPrepend(h, r, o) == moved(splice_after(h, r, move_to_back(h, r), o))

prepend(h, r, o) == moved(splice_before(h, r, move_to_front(h, r), o))

\* Without the swap: the receiver keeps the part from the index on.
unswapped(res) == Outcome(res.h, res.after, res.before, NoValue, FALSE)

\* The cursor keeps the part from the index on and split_before returns the
\* part before it; the two are then swapped.
swapped(res) == Outcome(res.h, res.before, res.after, NoValue, FALSE)

\* A faulty split_off: the cut is made one element too far.
BadSplitOffIndex(h, r, i) ==
    IF ~(i <= len(h, r)) THEN Outcome(h, r, NoNode, NoValue, TRUE)
    ELSE swapped(split_before(h, r, move_to(h, r, i + 1)))

\* A faulty split_off: the index is not compared with the length.
BadSplitOffUnchecked(h, r, i) == swapped(split_before(h, r, move_to(h, r, i)))

\* A faulty split_off: the swap is left out.
BadSplitOff(h, r, i) ==
    IF ~(i <= len(h, r)) THEN Outcome(h, r, NoNode, NoValue, TRUE)
    ELSE unswapped(split_before(h, r, move_to(h, r, i)))

split_off(h, r, i) ==
    IF ~(i <= len(h, r)) THEN Outcome(h, r, NoNode, NoValue, TRUE)
    ELSE swapped(split_before(h, r, move_to(h, r, i)))

\* A bound of a range: Included(n), Excluded(n) or Unbounded.
UsizeMax == 255

\* usize subtraction.  With the end below the start it wraps to an index that
\* split_off refuses; a build with overflow checks panics at the subtraction
\* itself, in the same state.
wrapping_sub(n, m) == (n - m) % (UsizeMax + 1)

\* A faulty saturating_add: the sum wraps around.
BadSaturatingAdd(n, m) == (n + m) % (UsizeMax + 1)

saturating_add(n, m) == IF n + m > UsizeMax THEN UsizeMax ELSE n + m

min(a, b) == IF a <= b THEN a ELSE b

into_range(h, r, range) ==
    LET length == len(h, r)
        start == CASE range.start.kind = "Included" -> min(range.start.n, length)
                   [] range.start.kind = "Excluded" ->
                          min(saturating_add(range.start.n, 1), length)
                   [] OTHER -> 0
        end == CASE range.end.kind = "Included" ->
                          min(saturating_add(range.end.n, 1), length)
                 [] range.end.kind = "Excluded" -> min(range.end.n, length)
                 [] OTHER -> length
    IN  [start |-> start, end |-> end]

\* Iter::range: the elements whose index is in rg, front to back; none when
\* rg.start is not below rg.end.
iter_bounded(h, r, rg) == SubSeq(iter(h, r), rg.start + 1, rg.end)

iter_range(h, r, range) == iter_bounded(h, r, into_range(h, r, range))

\* In the interior case the receiver is cut at range.start, then the part cut
\* off is cut at range.end - range.start.
\* mem::swap(self, &mut result): the receiver and the tree cut off trade places.
exchanged(res) == Outcome(res.h, res.other, res.root, NoValue, FALSE)

\* self.cursor_back_mut(token).splice_after(&mut after): r is the receiver,
\* second the outcome of cutting the result, whose part cut off goes back.
\* When cutting the result panicked, the receiver stays as the first cut left
\* it and the result is dropped.
respliced(r, second) ==
    LET res == splice_after(second.h, r, move_to_back(second.h, r), second.other)
    IN  IF second.panic THEN Outcome(second.h, r, NoNode, NoValue, TRUE)
        ELSE Outcome(res.h, res.root, second.root, NoValue, FALSE)

\* A faulty interior: the result is cut at range.end.
BadSplitInterior(first, rg) ==
    respliced(first.root, split_off(first.h, first.other, rg.end))

\* The interior of split: first is the outcome of self.split_off(range.start),
\* whose part cut off is cut again at range.end - range.start.
split_interior(first, rg) ==
    respliced(first.root,
              split_off(first.h, first.other, wrapping_sub(rg.end, rg.start)))

split_range(h, r, rg) ==
    IF rg.start = 0 /\ rg.end = len(h, r) THEN Outcome(h, NoNode, r, NoValue, FALSE)
    ELSE IF rg.end = len(h, r) THEN split_off(h, r, rg.start)
    ELSE IF rg.start = 0 THEN exchanged(split_off(h, r, rg.end))
    ELSE split_interior(split_off(h, r, rg.start), rg)

split(h, r, range) == split_range(h, r, into_range(h, r, range))

----------------------------------------------------------------------------
\* clear: the loop of TripodTree::clear, one iteration per call.  tripod is
\* the deployed spare of the node the loop is at; failed tells that an expect
\* or a deploy found its slot empty.  log is what an observer of the loop
\* writes down: the addresses of the nodes in the order they are released,
\* the number of iterations, the largest number of spares out of their slots
\* at one moment, and whether every node was ready when it was released.

\* A faulty retract: the spare stays out of its slot.
BadRetract(h, n) == h

deploy(h, n) == [h EXCEPT ![n].tripod = NoNode]

retract(h, n) == [h EXCEPT ![n].tripod = n]

\* The spares out of their slots.
deployed(h) == Cardinality({n \in Nodes : h[n] # FreeNode /\ h[n].tripod = NoNode})

\* What node_into_full and full_into_inner expect of the node they are given.
ready(h, n) ==
    h[n].up = NoNode /\ h[n].left = n /\ h[n].right = n /\ h[n].tripod = n

NoLog == [freed |-> <<>>, steps |-> 0, peak |-> 0, ready |-> TRUE]

\* One more iteration, during which the heap was h.
stepped(log, h) ==
    [log EXCEPT !.steps = @ + 1,
                !.peak = IF deployed(h) > @ THEN deployed(h) ELSE @]

\* Node n of heap h is handed to node_into_inner.
released(log, h, n) ==
    [log EXCEPT !.freed = Append(@, n), !.ready = @ /\ ready(h, n)]

RECURSIVE clear_loop(_, _, _, _)
clear_loop(h, r, tripod, log) ==
    IF left(h, tripod) # NoNode THEN
        IF h[left(h, tripod)].tripod = NoNode
        THEN [h |-> h, log |-> log, failed |-> TRUE]
        ELSE clear_loop(retract(deploy(h, left(h, tripod)), tripod), r,
                        left(h, tripod), stepped(log, deploy(h, left(h, tripod))))
    ELSE IF right(h, tripod) # NoNode THEN
        IF h[right(h, tripod)].tripod = NoNode
        THEN [h |-> h, log |-> log, failed |-> TRUE]
        ELSE clear_loop(retract(deploy(h, right(h, tripod)), tripod), r,
                        right(h, tripod), stepped(log, deploy(h, right(h, tripod))))
    ELSE IF h[tripod].up # NoNode THEN
        LET up == h[tripod].up
            h1 == [h EXCEPT ![tripod].up = NoNode]
            side == is_child_of(h1, tripod, up)
            h2 == retract(replace_child(deploy(h1, up), up, side, up), tripod)
        IN  IF h[up].tripod = NoNode \/ side = "None" \/ h2[tripod].tripod = NoNode
            THEN [h |-> h, log |-> log, failed |-> TRUE]
            ELSE clear_loop(node_into_inner(h2, tripod), r, up,
                            released(stepped(log, deploy(h1, up)), h2, tripod))
    ELSE IF retract(h, tripod)[r].tripod = NoNode
        THEN [h |-> h, log |-> log, failed |-> TRUE]
        ELSE [h |-> node_into_inner(retract(h, tripod), r),
              log |-> released(stepped(log, h), retract(h, tripod), r),
              failed |-> FALSE]

clear(h, r) ==
    IF r = NoNode THEN [h |-> h, log |-> NoLog, failed |-> FALSE]
    ELSE IF h[r].tripod = NoNode THEN [h |-> h, log |-> NoLog, failed |-> TRUE]
    ELSE clear_loop(deploy(h, r), r, r, NoLog)

----------------------------------------------------------------------------
\* The program: two trees of one brand, and every public operation on either.

\* Addresses.  Which address the allocator hands out has no bearing on the
\* tree, so after every operation the heap is renamed: the nodes of the first
\* tree front to back, then those of the second, then (after a panic) the
\* nodes no tree reaches.
RECURSIVE addresses(_, _)
addresses(h, n) ==
    IF n = NoNode THEN <<>>
    ELSE addresses(h, left(h, n)) \o <<n>> \o addresses(h, right(h, n))

RECURSIVE ascending(_)
ascending(S) ==
    IF S = {} THEN <<>>
    ELSE LET n == CHOOSE x \in S : \A y \in S : x <= y
         IN  <<n>> \o ascending(S \ {n})

Range(seq) == {seq[i] : i \in DOMAIN seq}

renamed(h, r) ==
    LET held == addresses(h, r[1]) \o addresses(h, r[2])
        lost == ascending({n \in Nodes : h[n] # FreeNode} \ Range(held))
        order == held \o lost
        new(n) == IF n = NoNode THEN NoNode
                  ELSE CHOOSE i \in DOMAIN order : order[i] = n
    IN  [h |-> [i \in Nodes |->
                  IF i > Len(order) THEN FreeNode
                  ELSE [size |-> h[order[i]].size, value |-> h[order[i]].value,
                        up |-> new(h[order[i]].up), left |-> new(h[order[i]].left),
                        right |-> new(h[order[i]].right),
                        tripod |-> new(h[order[i]].tripod)]],
         root |-> [t \in Trees |-> new(r[t])]]

alloc(h) == CHOOSE n \in Nodes : h[n] = FreeNode /\ \A m \in 1..(n - 1) : h[m] # FreeNode

HasFree(h) == \E n \in Nodes : h[n] = FreeNode

Other(t) == 3 - t

Before == <<iter(heap, root[1]), iter(heap, root[2])>>

\* tree.append(&mut tail, token), after the cut that made tail.
append_cut(cut) == append(cut.h, cut.root, cut.other)

cleared(res, o) == Outcome(res.h, NoNode, o, NoValue, res.failed)

\* No call is under way.
Idle == [op |-> "none", t |-> 1, arg |-> <<>>, value |-> NoValue,
         panic |-> FALSE, before |-> <<<<>>, <<>>>>]

Done(name, t, arg, res) ==
    LET to == renamed(res.h, [root EXCEPT ![t] = res.root, ![Other(t)] = res.other])
    IN  /\ heap' = to.h
        /\ root' = to.root
        /\ last' = [op |-> name, t |-> t, arg |-> arg, value |-> res.value,
                    panic |-> res.panic, before |-> Before]

Init ==
    /\ heap = [n \in Nodes |-> FreeNode]
    /\ root = [t \in Trees |-> NoNode]
    /\ last = Idle

\* The tree variable t, which holds no tree, is given a new tree of one value.
Singleton(t, v) ==
    /\ last = Idle
    /\ root[t] = NoNode
    /\ HasFree(heap)
    /\ Done("singleton", t, <<v>>,
            [singleton(heap, alloc(heap), v) EXCEPT !.other = root[Other(t)]])

PushFront(t, v) ==
    /\ last = Idle
    /\ HasFree(heap)
    /\ Done("push_front", t, <<v>>,
            push_front(heap, root[t], root[Other(t)], alloc(heap), v))

PushBack(t, v) ==
    /\ last = Idle
    /\ HasFree(heap)
    /\ Done("push_back", t, <<v>>,
            push_back(heap, root[t], root[Other(t)], alloc(heap), v))

PopFront(t) ==
    /\ last = Idle
    /\ Done("pop_front", t, <<>>, pop_front(heap, root[t], root[Other(t)]))

PopBack(t) ==
    /\ last = Idle
    /\ Done("pop_back", t, <<>>, pop_back(heap, root[t], root[Other(t)]))

AppendOther(t) ==
    /\ last = Idle
    /\ Done("append", t, <<>>, append(heap, root[t], root[Other(t)]))

PrependOther(t) ==
    /\ last = Idle
    /\ Done("prepend", t, <<>>, prepend(heap, root[t], root[Other(t)]))

\* The tree split off is kept as the other tree, which is empty before.
SplitOff(t, i) ==
    /\ last = Idle
    /\ root[Other(t)] = NoNode
    /\ Done("split_off", t, <<i>>, split_off(heap, root[t], i))

Bounds == [kind : {"Included", "Excluded"}, n : 0..MaxNodes]
              \cup {[kind |-> "Unbounded", n |-> 0]}

Split(t, range) ==
    /\ last = Idle
    /\ root[Other(t)] = NoNode
    /\ Done("split", t, <<range>>, split(heap, root[t], range))

\* A caller that cuts a tree in two and puts the part cut off back at once:
\* let mut tail = tree.split_off(k, token); tree.append(&mut tail, token).
SplitOffAppend(t, k) ==
    /\ last = Idle
    /\ root[Other(t)] = NoNode
    /\ k <= len(heap, root[t])
    /\ Done("split_off_append", t, <<k>>,
            append_cut(split_off(heap, root[t], k)))

Clear(t) ==
    /\ last = Idle
    /\ Done("clear", t, <<clear(heap, root[t]).log>>,
            cleared(clear(heap, root[t]), root[Other(t)]))

\* The call returns to its caller.
Return ==
    /\ last # Idle
    /\ ~last.panic
    /\ last' = Idle
    /\ UNCHANGED <<heap, root>>

Next ==
    \/ \E t \in Trees :
        \/ \E v \in Values : Singleton(t, v)
        \/ \E v \in Values : PushFront(t, v)
        \/ \E v \in Values : PushBack(t, v)
        \/ PopFront(t)
        \/ PopBack(t)
        \/ AppendOther(t)
        \/ PrependOther(t)
        \/ \E i \in 0..(MaxNodes + 1) : SplitOff(t, i)
        \/ \E s, e \in Bounds : Split(t, [start |-> s, end |-> e])
        \/ \E k \in 0..MaxNodes : SplitOffAppend(t, k)
        \/ Clear(t)
    \/ Return

Spec == Init /\ [][Next]_vars

----------------------------------------------------------------------------
\* The spare slot on its own: deploy and retract applied to any node of a
\* tree, whatever the state of its slot.

\* Node::deploy: take().expect(..) panics on an empty slot in every build.
try_deploy(h, n) ==
    IF h[n].tripod = NoNode THEN [h |-> h, panic |-> TRUE]
    ELSE [h |-> deploy(h, n), panic |-> FALSE]

\* Node::retract and retract: the handle replaces what the slot held, and a
\* debug_assert! looks at what was there.  The assertion is compiled only
\* into a build with debug assertions; without them the call returns with the
\* former handle overwritten.
try_retract(h, n, debug_assertions) ==
    IF h[n].tripod # NoNode /\ debug_assertions THEN [h |-> h, panic |-> TRUE]
    ELSE [h |-> retract(h, n), panic |-> FALSE]

\* Every spare is in its slot.
AtRest == \A n \in Nodes : heap[n] # FreeNode => heap[n].tripod = n

slot(res, t) == Outcome(res.h, root[t], root[Other(t)], NoValue, res.panic)

DeploySpare(t, n) ==
    /\ last = Idle
    /\ n \in Range(addresses(heap, root[t]))
    /\ Done("deploy", t, <<n>>, slot(try_deploy(heap, n), t))

RetractSpare(t, n, debug_assertions) ==
    /\ last = Idle
    /\ n \in Range(addresses(heap, root[t]))
    /\ Done("retract", t, <<n>>, slot(try_retract(heap, n, debug_assertions), t))

\* The public operations are called on trees at rest only.
ProtocolNext ==
    \/ \E t \in Trees :
        \/ AtRest /\ \E v \in Values : PushBack(t, v)
        \/ \E n \in Nodes : DeploySpare(t, n)
        \/ \E n \in Nodes : \E d \in BOOLEAN : RetractSpare(t, n, d)
    \/ Return

ProtocolSpec == Init /\ [][ProtocolNext]_vars

----------------------------------------------------------------------------
\* Properties

\* The elements of tree t, front to back.
held(t) == iter(heap, root[t])

\* The nodes the tree rooted at r holds, counted by following the child
\* links, without reading any size.
NodeCount(h, r) == Len(addresses(h, r))

\* seq without its i-th element.
Removed(seq, i) == SubSeq(seq, 1, i - 1) \o SubSeq(seq, i + 1, Len(seq))

\* C1: in every state that the public operations reach, every node of both
\* trees has size = 1 + the size of its left child (0 without one) + the
\* size of its right child (0 without one), and len() is the number of nodes
\* that the root reaches.
SizeInvariant ==
    \A t \in Trees :
        /\ \A n \in Range(addresses(heap, root[t])) :
              heap[n].size =
                  1 + (IF left(heap, n) = NoNode THEN 0 ELSE heap[left(heap, n)].size)
                    + (IF right(heap, n) = NoNode THEN 0 ELSE heap[right(heap, n)].size)
        /\ len(heap, root[t]) = NodeCount(heap, root[t])

\* A split has left two nodes in one tree and three in the other.
SizeWitness ==
    /\ last.op = "split"
    /\ len(heap, root[1]) = 2
    /\ NodeCount(heap, root[2]) = 3

\* C3: an insertion adds one element and a removal takes one element out,
\* and the other elements of the tree keep their order; the other tree keeps
\* its elements.
OrderPreserved ==
    LET was == last.before[last.t]
        now == held(last.t)
    IN  /\ last.op \in {"push_front", "push_back"} =>
            /\ \E i \in 1..Len(now) : now[i] = last.arg[1] /\ Removed(now, i) = was
            /\ held(Other(last.t)) = last.before[Other(last.t)]
        /\ last.op \in {"pop_front", "pop_back"} /\ was # <<>> =>
            /\ \E i \in 1..Len(was) : was[i] = last.value /\ Removed(was, i) = now
            /\ held(Other(last.t)) = last.before[Other(last.t)]

\* A push at the front of a tree of four elements, not all equal, after which
\* the root has two elements on its left.
OrderWitness ==
    /\ last.op = "push_front"
    /\ last.before[last.t] = <<1, 2, 2, 1>>
    /\ root[last.t] # NoNode
    /\ left_size(heap, root[last.t]) = 2

\* C4: at(i) and at_mut(i) are the i-th element of iter() for i < len() and
\* nothing for i >= len(); front() is at(0) and back() is at(len() - 1).
IndexingCorrect ==
    \A t \in Trees :
        LET n == len(heap, root[t]) IN
        /\ \A i \in 0..(MaxNodes + 1) :
              /\ at(heap, root[t], i) = IF i < n THEN held(t)[i + 1] ELSE NoValue
              /\ at_mut(heap, root[t], i) = at(heap, root[t], i)
        /\ front(heap, root[t]) = at(heap, root[t], 0)
        /\ n > 0 => back(heap, root[t]) = at(heap, root[t], n - 1)
        /\ n = 0 => back(heap, root[t]) = NoValue

\* A tree of five elements whose middle one differs from its neighbours.
IndexingWitness ==
    /\ held(1) = <<1, 1, 2, 1, 1>>
    /\ at(heap, root[1], 2) = 2
    /\ at(heap, root[1], 5) = NoValue

\* C5: after A.append(B), A holds the elements of A followed by those of B,
\* A.len() is the sum of the two lengths, and B is empty.
AppendSemantics ==
    last.op = "append" =>
        /\ held(last.t) = last.before[last.t] \o last.before[Other(last.t)]
        /\ len(heap, root[last.t]) =
               Len(last.before[last.t]) + Len(last.before[Other(last.t)])
        /\ is_empty(root[Other(last.t)])
        /\ len(heap, root[Other(last.t)]) = 0

\* Two elements were appended to three, none of the two trees being uniform.
AppendWitness ==
    /\ last.op = "append"
    /\ last.before[last.t] = <<1, 2, 2>>
    /\ last.before[Other(last.t)] = <<2, 1>>

\* C6: after A.prepend(B), A holds the elements of B followed by those of A,
\* A.len() is the sum of the two lengths, and B is empty.
PrependSemantics ==
    last.op = "prepend" =>
        /\ held(last.t) = last.before[Other(last.t)] \o last.before[last.t]
        /\ len(heap, root[last.t]) =
               Len(last.before[last.t]) + Len(last.before[Other(last.t)])
        /\ is_empty(root[Other(last.t)])
        /\ len(heap, root[Other(last.t)]) = 0

\* Three elements were prepended to two.
PrependWitness ==
    /\ last.op = "prepend"
    /\ last.before[last.t] = <<1, 2>>
    /\ last.before[Other(last.t)] = <<2, 1, 1>>

\* The range s..e, start included and end excluded.
HalfOpen(range) == range.start.kind = "Included" /\ range.end.kind = "Excluded"

\* C7: for a tree of n elements and a range s..e with 0 <= s <= e <= n,
\* split returns a tree of e - s elements, the elements s..e of the original
\* in order, and the receiver keeps the elements before s followed by those
\* from e on.
SplitSemantics ==
    LET was == last.before[last.t]
        s == last.arg[1].start.n
        e == last.arg[1].end.n
    IN  last.op = "split" /\ HalfOpen(last.arg[1]) /\ s <= e /\ e <= Len(was) =>
            /\ ~last.panic
            /\ held(Other(last.t)) = SubSeq(was, s + 1, e)
            /\ len(heap, root[Other(last.t)]) = e - s
            /\ held(last.t) = SubSeq(was, 1, s) \o SubSeq(was, e + 1, Len(was))

\* An interior range was split from a tree of five elements.
SplitWitness ==
    /\ last.op = "split"
    /\ last.arg[1] = [start |-> [kind |-> "Included", n |-> 1],
                      end |-> [kind |-> "Excluded", n |-> 3]]
    /\ last.before[last.t] = <<1, 2, 1, 2, 2>>
    /\ held(Other(last.t)) = <<2, 1>>

\* C8: for a tree of n elements and at <= n, split_off(at) returns the
\* elements from at on, in order, and the receiver keeps the elements before
\* at, in order.
SplitOffSemantics ==
    LET was == last.before[last.t]
    IN  last.op = "split_off" /\ last.arg[1] <= Len(was) =>
            /\ ~last.panic
            /\ held(last.t) = SubSeq(was, 1, last.arg[1])
            /\ held(Other(last.t)) = SubSeq(was, last.arg[1] + 1, Len(was))
            /\ len(heap, root[last.t]) + len(heap, root[Other(last.t)]) = Len(was)

\* A tree of five elements was cut at 2.
SplitOffWitness ==
    /\ last.op = "split_off"
    /\ last.arg = <<2>>
    /\ last.before[last.t] = <<1, 2, 2, 1, 2>>
    /\ held(Other(last.t)) = <<2, 1, 2>>

\* C9: tail = T.split_off(k) and then T.append(tail), for k <= len(), leave T
\* with the elements and the length it had, and tail empty.
RoundTrip ==
    last.op = "split_off_append" =>
        /\ held(last.t) = last.before[last.t]
        /\ len(heap, root[last.t]) = Len(last.before[last.t])
        /\ is_empty(root[Other(last.t)])

\* A tree of five elements was cut at 3 and put together again.
RoundTripWitness ==
    /\ last.op = "split_off_append"
    /\ last.arg = <<3>>
    /\ held(last.t) = <<2, 1, 1, 2, 1>>

\* C10: push_front(v) puts v at index 0 and push_back(v) at index len(), the
\* other elements keeping their places after it or before it; pop_front and
\* pop_back return the element at index 0 and at index len() - 1 and leave
\* the others; on an empty tree they return nothing and the tree stays empty.
DequeSemantics ==
    LET was == last.before[last.t]
        now == held(last.t)
    IN  /\ last.op = "push_front" => now = <<last.arg[1]>> \o was
        /\ last.op = "push_back" => now = Append(was, last.arg[1])
        /\ last.op \in {"push_front", "push_back"} =>
               len(heap, root[last.t]) = Len(was) + 1
        /\ last.op = "pop_front" /\ was # <<>> =>
               last.value = Head(was) /\ now = Tail(was)
        /\ last.op = "pop_back" /\ was # <<>> =>
               last.value = was[Len(was)] /\ now = SubSeq(was, 1, Len(was) - 1)
        /\ last.op \in {"pop_front", "pop_back"} /\ was # <<>> =>
               len(heap, root[last.t]) = Len(was) - 1
        /\ last.op \in {"pop_front", "pop_back"} /\ was = <<>> =>
               last.value = NoValue /\ is_empty(root[last.t])

\* The back of a tree of four elements was popped.
DequeWitness ==
    /\ last.op = "pop_back"
    /\ last.before[last.t] = <<1, 2, 1, 2>>
    /\ last.value = 2
    /\ held(last.t) = <<1, 2, 1>>

\* C11: split_off(at) with at > len() panics, and the panic is raised before
\* a cursor is made or a link is rewritten: the nodes, their links and the
\* roots of both trees are those before the call.
SplitOffRejected ==
    [][(/\ last = Idle
        /\ last'.op = "split_off"
        /\ last'.arg[1] > len(heap, root[last'.t]))
       => (last'.panic /\ heap' = heap /\ root' = root)]_vars

\* split_off(4) was refused on a tree of three elements, which it still holds.
SplitOffRejectedWitness ==
    /\ last.op = "split_off"
    /\ last.arg = <<4>>
    /\ last.panic
    /\ last.before[last.t] = <<1, 2, 1>>
    /\ held(last.t) = <<1, 2, 1>>
    /\ is_empty(root[Other(last.t)])

\* The bounds a range can have: those of Bounds, and the largest integer.
AnyBound ==
    Bounds \cup [kind : {"Included", "Excluded"}, n : {UsizeMax}]

\* The first index a start bound lets in and the first index an end bound
\* keeps out, neither above n.
ClampedStart(b, n) ==
    LET v == IF b.kind = "Unbounded" THEN 0
             ELSE IF b.kind = "Included" THEN b.n ELSE b.n + 1
    IN  IF v < n THEN v ELSE n

ClampedEnd(b, n) ==
    LET v == IF b.kind = "Unbounded" THEN n
             ELSE IF b.kind = "Excluded" THEN b.n ELSE b.n + 1
    IN  IF v < n THEN v ELSE n

\* The elements of seq whose index, counted from 0, is at least lo and below
\* hi, in increasing index order.
Between(seq, lo, hi) ==
    [i \in 1..(IF hi > lo THEN hi - lo ELSE 0) |-> seq[lo + i]]

\* C12: for all bounds, included, excluded or unbounded, up to the largest
\* integer, iter_range yields the elements whose index is in [start, end)
\* once both bounds are clamped to len(), in increasing index order, and
\* nothing when start is above end.
IterRangeCorrect ==
    last = Idle =>
        \A t \in Trees :
            \A s, e \in AnyBound :
                iter_range(heap, root[t], [start |-> s, end |-> e]) =
                    Between(held(t), ClampedStart(s, len(heap, root[t])),
                            ClampedEnd(e, len(heap, root[t])))

\* On a tree of five elements: an interior range, a range whose start is above
\* its end, and a start past the largest integer.
IterRangeWitness ==
    /\ last = Idle
    /\ held(1) = <<1, 2, 1, 2, 2>>
    /\ iter_range(heap, root[1], [start |-> [kind |-> "Excluded", n |-> 0],
                                  end |-> [kind |-> "Included", n |-> 2]]) = <<2, 1>>
    /\ iter_range(heap, root[1], [start |-> [kind |-> "Included", n |-> 4],
                                  end |-> [kind |-> "Excluded", n |-> 2]]) = <<>>
    /\ iter_range(heap, root[1], [start |-> [kind |-> "Excluded", n |-> UsizeMax],
                                  end |-> [kind |-> "Unbounded", n |-> 0]]) = <<>>

\* C13: split never fails half-way: for every range, also one whose start is
\* above its end once clamped, a split that panics has not cut the receiver,
\* which holds the sequence it held before the call.
SplitNeverHalfWay ==
    (last.op = "split" /\ last.panic) => held(last.t) = last.before[last.t]

\* The nodes under n: those of the left subtree, those of the right subtree,
\* then n.
RECURSIVE postorder(_, _)
postorder(h, n) ==
    IF n = NoNode THEN <<>>
    ELSE postorder(h, left(h, n)) \o postorder(h, right(h, n)) \o <<n>>

\* C14: clear ends after a bounded number of iterations, each of which goes
\* down to a child or releases one node (2n - 1 for n nodes); it leaves the
\* tree empty with len() 0; it releases every node once, a node after its left
\* and its right subtree; every node it releases has no up, both child slots
\* naming the node itself and its spare parked, and no expect or deploy fails.
ClearReleasesAll ==
    [][(last = Idle /\ last'.op = "clear")
       => LET t == last'.t
              log == last'.arg[1]
              n == len(heap, root[t])
          IN  /\ ~last'.panic
              /\ is_empty(root'[t])
              /\ len(heap', root'[t]) = 0
              /\ log.steps = (IF n = 0 THEN 0 ELSE 2 * n - 1)
              /\ log.freed = postorder(heap, root[t])
              /\ Len(log.freed) = n
              /\ Cardinality(Range(log.freed)) = n
              /\ log.ready
              /\ Cardinality({m \in Nodes : heap'[m] # FreeNode})
                    = len(heap, root[Other(t)])]_vars

\* A tree of five nodes was cleared in nine iterations: the root, at address
\* 4, last, after its left subtree (1 and 3 under 2) and its right child 5.
ClearWitness ==
    /\ last.op = "clear"
    /\ last.t = 1
    /\ last.before[1] = <<1, 2, 1, 2, 2>>
    /\ last.arg[1].freed = <<1, 3, 2, 5, 4>>
    /\ last.arg[1].steps = 9
    /\ is_empty(root[1])

\* C15: deploy on a node whose spare slot is empty panics, retract into a node
\* whose spare slot is occupied panics, and neither changes the slot.
SpareProtocolFatal ==
    [][(/\ last = Idle
        /\ \/ last'.op = "deploy" /\ heap[last'.arg[1]].tripod = NoNode
           \/ last'.op = "retract" /\ heap[last'.arg[1]].tripod # NoNode)
       => (last'.panic /\ heap' = heap)]_vars

\* The slots outside node n that hold a share of it as their child or as the
\* root of a tree.
Holders(n) ==
    Cardinality({t \in Trees : root[t] = n})
        + Cardinality({m \in Nodes \ {n} : heap[m] # FreeNode /\ heap[m].left = n})
        + Cardinality({m \in Nodes \ {n} : heap[m] # FreeNode /\ heap[m].right = n})

\* The four shares of node n: one with the parent's child slot or the tree,
\* one per side in the node's own slot or in the up link of the child on that
\* side, and the spare in its slot.
SharesAccounted(n) ==
    /\ Holders(n) = 1
    /\ \A side \in Side :
          \/ child_ref(heap, n, side) = n
          \/ heap[child_ref(heap, n, side)].up = n
    /\ Cardinality({c \in Nodes : heap[c] # FreeNode /\ heap[c].up = n})
          = Cardinality({side \in Side : child_ref(heap, n, side) # n})
    /\ heap[n].tripod = n

\* C16: once a node is made and once a public operation has completed, every
\* node of every tree has its spare in its slot and its four shares accounted
\* for; and clear never has more than two spares out of their slots at one
\* moment and never deploys from an empty slot.
OwnershipAtRest ==
    /\ ~last.panic =>
          \A t \in Trees : \A n \in Range(addresses(heap, root[t])) :
              SharesAccounted(n)
    /\ last.op = "clear" => (~last.panic /\ last.arg[1].peak <= 2)

\* A tree of three nodes was cleared with two spares out at one moment, while
\* the other tree keeps two nodes, one the child of the other.
OwnershipWitness ==
    /\ last.op = "clear"
    /\ ~last.panic
    /\ Len(last.before[last.t]) = 3
    /\ last.arg[1].peak = 2
    /\ Len(held(Other(last.t))) = 2
    /\ \A n \in Range(addresses(heap, root[Other(last.t)])) : SharesAccounted(n)

\* The nodes of tree t by index: the node at index 0, at index 1, ...
ByIndex(t) == [i \in 1..len(heap, root[t]) |-> move_to(heap, root[t], i - 1)]

SlotsNaming(n) ==
    {<<m, side>> \in (Nodes \ {n}) \X Side :
        heap[m] # FreeNode /\ child_ref(heap, m, side) = n}

\* C18: in every tree at rest the root has no up link, and every other node is
\* named by one child slot only, a slot of the node its up link names, so that
\* is_child_of on the node and that parent reports a side.
LinkConsistency ==
    ~last.panic =>
        \A t \in Trees : \A n \in Range(addresses(heap, root[t])) :
            IF n = root[t] THEN heap[n].up = NoNode /\ SlotsNaming(n) = {}
            ELSE /\ heap[n].up # NoNode
                 /\ Cardinality(SlotsNaming(n)) = 1
                 /\ \E side \in Side : SlotsNaming(n) = {<<heap[n].up, side>>}
                 /\ is_child_of(heap, n, heap[n].up) # "None"

\* split_off(2) cut a tree of five nodes in two trees of two and three nodes,
\* in which one node is a left child and another a right child.
LinkWitness ==
    /\ last.op = "split_off"
    /\ last.arg = <<2>>
    /\ ~last.panic
    /\ Len(last.before[last.t]) = 5
    /\ Len(held(last.t)) = 2
    /\ Len(held(Other(last.t))) = 3
    /\ \E n, m \in Nodes :
          /\ heap[n] # FreeNode /\ heap[n].up # NoNode
          /\ heap[m] # FreeNode /\ heap[m].up # NoNode
          /\ is_child_of(heap, n, heap[n].up) = "Left"
          /\ is_child_of(heap, m, heap[m].up) = "Right"

====
